---- MODULE Spec2Model ----
(***************************************************************************)
(* Mount lifecycle of the Pachyderm storage backend:                       *)
(*   label_studio/io_storages/pachyderm/models.py       (PachydermMixin,   *)
(*       import/export storages, the post_save receiver, split_branch)     *)
(*   label_studio/io_storages/pachyderm/mount_server.py (mount-server API) *)
(*                                                                         *)
(* Request-handling threads run mount / unmount / delete /                 *)
(* validate_connection / save_annotation / sync on storage configurations. *)
(* The mount-server (helper process), the /pfs directory and the database  *)
(* rows are the environment.  Strings are sequences of one-character       *)
(* strings so that split_branch is computed as str.partition computes it.  *)
(***************************************************************************)
EXTENDS Integers, Sequences, FiniteSets, TLC

\* ------------------------------------------------------------- bounds
\* Value of the `wait` argument (30 in the source) scaled down.
WaitBound == 2
\* Calls started in one behaviour.
MaxCalls == 2
\* Edits of a configuration's repository field in one behaviour.
MaxEdits == 1
\* Crashes of the helper process in one behaviour.
MaxCrashes == 1
\* Longest `repository` string given to split_branch on its own.
MaxLen == 4

\* ------------------------------------------------------------- values
None == "None"
\* _mounts.get(pk, None) of an absent key; no repo@branch string is empty.
NoEntry == <<>>

\* _mount_process before any Popen (None); the n-th Popen handle is n.
NoProcess == 0
Threads == {"t1", "t2"}
\* self.pk of an instance that was never saved (None).
NonePk == 0
\* Saved configurations, one import and two export storages of one project, and
\* two instances that were never saved; their primary keys.
Configs == {"imp1", "exp1", "exp2", "new1", "new2"}
pk(c) == CASE c = "imp1" -> 1 [] c = "exp1" -> 2 [] c = "exp2" -> 3 [] OTHER -> NonePk
\* The mode the configuration's sync mounts with: mount() for an import storage,
\* mount(writable=True) for an export storage.
Writable(c) == c \in {"exp1", "exp2"}
Pks == {pk(c) : c \in Configs}

master == <<"m", "a", "s", "t", "e", "r">>
\* Values of the `repository` text field.
RepoInputs == { <<"r">>, <<"r", "@", "d">> }

\* str.partition("@"): index of the first "@", 0 when there is none.
AtIndex(s) ==
    IF \E i \in 1..Len(s) : s[i] = "@"
    THEN CHOOSE i \in 1..Len(s) : s[i] = "@" /\ \A j \in 1..(i - 1) : s[j] # "@"
    ELSE 0

split_branchAtLast(repository) ==
    LET k == IF \E i \in 1..Len(repository) : repository[i] = "@"
             THEN CHOOSE i \in 1..Len(repository) :
                    repository[i] = "@" /\ \A j \in (i + 1)..Len(repository) : repository[j] # "@"
             ELSE 0
    IN  IF k = 0 THEN << repository, <<>> >>
        ELSE << SubSeq(repository, 1, k - 1), SubSeq(repository, k + 1, Len(repository)) >>

split_branch(repository) ==
    LET k == AtIndex(repository)
    IN  IF k = 0 THEN << repository, <<>> >>
        ELSE << SubSeq(repository, 1, k - 1), SubSeq(repository, k + 1, Len(repository)) >>

WithBranch(repo_name, branch) == repo_name \o <<"@">> \o branch

repository_with_branch(repository) ==
    LET p == split_branch(repository)
        branch == IF p[2] = <<>> THEN master ELSE p[2]
    IN  WithBranch(p[1], branch)

\* Directory names under PFS_DIR that the configurations can address.
MountNames == {repository_with_branch(r) : r \in RepoInputs}

VARIABLES
    mounts,         \* _mounts: pk -> mounted repo@branch, NoEntry when the key is absent
    mount_process,  \* _mount_process: NoProcess (None) or the n-th Popen handle created
    repository,     \* the persisted `repository` field of each configuration
    exists,         \* whether the configuration's database row exists
    helper,         \* mount-server reachability: "down" or "up"
    starting,       \* helper processes spawned while the server was unreachable
    crashes,        \* helper crashes so far
    pfs,            \* /pfs/<name>: "none", or the mode it is mounted with
    pend,           \* accepted request whose effect on /pfs/<name> is not visible yet
    stack,          \* per thread: labels still to run, innermost first
    op,             \* per thread: the call being run
    i,              \* per thread: loop counter of the running wait loop
    callLog,        \* per thread: PUT requests issued by the call, in order
    ssLog,          \* per thread: probes and Popens of the running safe_start_mount_server
    result,         \* per thread: outcome of the call
    calls,          \* calls started so far
    edits,          \* edits so far
    quiet,          \* per thread: nothing but the call itself acted since it began
    last,           \* the successful undisturbed mount call that returned in the last step
    files,          \* mount points under which the annotation's <key>.json file is
    links,          \* export configurations with an export link for the annotation
    todo,           \* per thread: storages the post_save receiver has still to visit
    parse_in,       \* a string handed to split_branch / repository_with_branch
    parse_out       \* what they returned for it

\* What the mount lifecycle leaves alone.
extra == << files, links, todo, parse_in, parse_out >>

vars == << mounts, mount_process, repository, exists, helper, starting, crashes,
           pfs, pend, stack, op, i, callLog, ssLog, result, calls, edits, quiet, last,
           files, links, todo, parse_in, parse_out >>

NoOp == [kind |-> None, c |-> None, ref |-> <<>>, writable |-> FALSE,
         entry0 |-> <<>>, mounted0 |-> FALSE, after |-> -1]
NoLast == [c |-> None, ref |-> <<>>, nm |-> -1]
NoResult == [r |-> None, at |-> None]
NoParse == [pair |-> << <<>>, <<>> >>, canon |-> <<>>, done |-> FALSE]

\* A freshly started process: empty registry, no helper spawned, nothing running.
Fresh ==
    /\ mounts = [k \in Pks |-> NoEntry]
    /\ mount_process = NoProcess
    /\ starting = 0
    /\ crashes = 0
    /\ pend = [n \in MountNames |-> "none"]
    /\ stack = [t \in Threads |-> <<>>]
    /\ op = [t \in Threads |-> NoOp]
    /\ i = [t \in Threads |-> 0]
    /\ callLog = [t \in Threads |-> <<>>]
    /\ ssLog = [t \in Threads |-> <<>>]
    /\ result = [t \in Threads |-> NoResult]
    /\ calls = 0
    /\ edits = 0
    /\ quiet = [t \in Threads |-> FALSE]
    /\ last = NoLast
    /\ files = {}
    /\ links = {}
    /\ todo = [t \in Threads |-> {}]
    /\ parse_out = NoParse

\* An import and an export configuration of the same repository; a mount-server
\* and read-only mounts of an earlier process may still be there.
Init ==
    /\ Fresh
    /\ repository = [c \in Configs |-> <<"r">>]
    /\ exists = [c \in Configs |-> c \in {"imp1", "exp1"}]
    /\ helper \in {"down", "up"}
    /\ pfs \in [MountNames -> {"none", "r"}]
    /\ parse_in = <<>>

\* ------------------------------------------------------------- helpers
Label(t) == IF stack[t] = <<>> THEN None ELSE Head(stack[t])

\* No call has ended without its caller having taken the outcome.
Settled == \A t \in Threads : result[t].r = None

At(t, label) == Settled /\ Label(t) = label

\* The state a mount call depends on besides the helper process.
Shared == << mounts, pfs, pend, repository, exists >>

\* A PUT request of the call's log.
Req(kind, repo, branch, name, mode, ok) ==
    [kind |-> kind, repo |-> repo, branch |-> branch, name |-> name, mode |-> mode, ok |-> ok]

CountKind(log, kind) == Cardinality({j \in 1..Len(log) : log[j].kind = kind})

Goto(t, label) == <<label>> \o Tail(stack[t])
Pop(t) == Tail(stack[t])

\* A step of thread t.  With err = None it goes on with `rest` (an empty `rest` is
\* the call returning normally); otherwise the exception err propagates out of the
\* call, which nothing in these methods catches.
Finish(t, rest, err, reqs, ss, newI) ==
    /\ stack' = [stack EXCEPT ![t] = IF err = None THEN rest ELSE <<>>]
    /\ result' = [result EXCEPT ![t] =
                    IF err # None THEN [r |-> err, at |-> Label(t)]
                    ELSE IF rest = <<>> THEN [r |-> "ok", at |-> Label(t)]
                    ELSE @]
    /\ i' = [i EXCEPT ![t] = newI]
    /\ callLog' = [callLog EXCEPT ![t] = @ \o reqs]
    /\ ssLog' = [ssLog EXCEPT ![t] = ss]
    /\ quiet' = [u \in Threads |-> quiet[u] /\ (u = t \/ Shared' = Shared)]
    /\ last' = IF err = None /\ rest = <<>> /\ op[t].kind = "mount" /\ quiet[t]
                  /\ ~op[t].mounted0 /\ op[t].entry0 = NoEntry
               THEN [c |-> op[t].c, ref |-> op[t].ref,
                     nm |-> CountKind(callLog[t] \o reqs, "mount")]
               ELSE NoLast

\* get_repos(): succeeds exactly when the mount-server answers.
get_repos_ok == helper = "up"

\* Outcomes of a PUT: raise_for_status() passes only if the server answered.
PutOutcomes == IF helper = "up" THEN {TRUE, FALSE} ELSE {FALSE}

\* mount_repo returns `name or f"{repo}@{branch}"`.
mount_repo(repo, branch, name) == IF name = <<>> THEN WithBranch(repo, branch) ELSE name

\* The request unmount_repo(repo, branch, name) sends.
unmount_repo(repo, branch, name) ==
    Req("unmount", repo, branch, IF name = <<>> THEN WithBranch(repo, branch) ELSE name,
        None, TRUE)

\* The directory an accepted unmount request removes: the one its name gives, or,
\* when the name is not that of the repo and branch in the URL, the one the URL gives.
UnmountTargets(ev) == {ev.name, WithBranch(ev.repo, ev.branch)} \cap MountNames

\* is_mounted: os.path.exists(PFS_DIR / repository_with_branch).
is_mounted(ref) == pfs[ref] # "none"

\* Line 62: the registry holds another repo@branch for this configuration.
NeedsUnmountAlways(mounted_repo, ref) == mounted_repo # NoEntry
NeedsUnmount(mounted_repo, ref) == mounted_repo # NoEntry /\ mounted_repo # ref

\* Line 67: the mount request is sent only when the mount point is absent.
ShouldMountAlways(ref) == TRUE
ShouldMount(ref) == ~is_mounted(ref)

\* `for _ in range(wait)`: another probe while fewer than `wait` were made.
MoreProbesOffByOne(n) == n <= WaitBound
MoreProbes(n) == n < WaitBound

\* ------------------------------------------------------------- calls
Begin(t, kind, c, w, frames) ==
    /\ Settled
    /\ stack[t] = <<>>
    /\ calls < MaxCalls
    /\ exists[c]
    /\ LET ref == repository_with_branch(repository[c])
       IN  op' = [op EXCEPT ![t] =
                    [kind |-> kind, c |-> c, ref |-> ref, writable |-> w,
                     entry0 |-> mounts[pk(c)], mounted0 |-> is_mounted(ref),
                     after |-> IF kind = "mount" /\ last.c = c /\ last.ref = ref
                               THEN last.nm ELSE -1]]
    /\ stack' = [stack EXCEPT ![t] = frames]
    /\ calls' = calls + 1
    /\ quiet' = [quiet EXCEPT ![t] = TRUE]
    /\ last' = NoLast
    /\ UNCHANGED extra
    /\ UNCHANGED << mounts, mount_process, repository, exists, helper, starting,
                    crashes, pfs, pend, edits, i, callLog, ssLog, result >>

MountFramesNoReady == <<"m_reconcile">>
MountFrames == <<"ss_probe", "m_reconcile">>
UnmountFrames == <<"ss_probe", "u_request">>
SaveFrames == <<"s_check">>

CallMount(t, c) == Begin(t, "mount", c, Writable(c), MountFrames)

CallUnmount(t, c) == Begin(t, "unmount", c, FALSE, UnmountFrames)

CallDelete(t, c) == Begin(t, "delete", c, FALSE, <<"d_check">>)

CallValidate(t, c) == Begin(t, "validate", c, FALSE, <<"ss_probe", "v_dir">>)

CallSave(t, c) == Writable(c) /\ Begin(t, "save", c, FALSE, SaveFrames)

\* sync of an export storage, and of an import storage (lines 146-147).
CallSync(t, c) ==
    Begin(t, "sync", c, Writable(c),
          IF Writable(c) THEN <<"x_check">> ELSE MountFrames \o <<"i_scan">>)

\* post_save of the annotation: the receiver visits the project's export storages.
CallHook(t) ==
    /\ Settled
    /\ stack[t] = <<>>
    /\ calls < MaxCalls
    /\ op' = [op EXCEPT ![t] = [NoOp EXCEPT !.kind = "hook"]]
    /\ todo' = [todo EXCEPT ![t] = {c \in Configs : exists[c] /\ Writable(c) /\ pk(c) # NonePk}]
    /\ stack' = [stack EXCEPT ![t] = <<"h_next">>]
    /\ calls' = calls + 1
    /\ quiet' = [quiet EXCEPT ![t] = TRUE]
    /\ last' = NoLast
    /\ UNCHANGED << files, links, parse_in, parse_out >>
    /\ UNCHANGED << mounts, mount_process, repository, exists, helper, starting,
                    crashes, pfs, pend, edits, i, callLog, ssLog, result >>

\* The caller takes the outcome of the call that ended; the thread is free again.
Collect(t) ==
    /\ result[t].r # None
    /\ op' = [op EXCEPT ![t] = NoOp]
    /\ result' = [result EXCEPT ![t] = NoResult]
    /\ callLog' = [callLog EXCEPT ![t] = <<>>]
    /\ ssLog' = [ssLog EXCEPT ![t] = <<>>]
    /\ quiet' = [quiet EXCEPT ![t] = FALSE]
    /\ todo' = [todo EXCEPT ![t] = {}]
    /\ UNCHANGED << files, links, parse_in, parse_out >>
    /\ UNCHANGED << mounts, mount_process, repository, exists, helper, starting,
                    crashes, pfs, pend, edits, i, stack, calls, last >>

\* ------------------------------------------------------------- safe_start_mount_server
\* Lines 111-113: the first get_repos().
SsProbe(t) ==
    /\ At(t, "ss_probe")
    /\ UNCHANGED extra
    /\ UNCHANGED << mounts, mount_process, repository, exists, helper, starting,
                    crashes, pfs, pend, op, calls, edits >>
    /\ IF get_repos_ok
       THEN Finish(t, Pop(t), None, <<>>, <<"ok">>, 0)
       ELSE Finish(t, Goto(t, "ss_spawn"), None, <<>>, <<"fail">>, 0)

\* Lines 114-115: Popen(["pachctl", "mount-server"]).
SsSpawn(t) ==
    /\ At(t, "ss_spawn")
    /\ UNCHANGED extra
    /\ UNCHANGED << mounts, repository, exists, helper, crashes, pfs, pend, op, calls, edits >>
    /\ mount_process' = mount_process + 1
    /\ starting' = IF helper = "up" THEN starting ELSE starting + 1
    /\ Finish(t, Goto(t, "ss_loop"), None, <<>>, Append(ssLog[t], "spawn"), 0)

\* Lines 116-122: `wait` more probes one second apart, then TimeoutError.
SsLoop(t) ==
    /\ At(t, "ss_loop")
    /\ UNCHANGED extra
    /\ UNCHANGED << mounts, mount_process, repository, exists, helper, starting,
                    crashes, pfs, pend, op, calls, edits >>
    /\ IF MoreProbes(i[t])
       THEN IF get_repos_ok
            THEN Finish(t, Pop(t), None, <<>>, Append(ssLog[t], "ok"), 0)
            ELSE Finish(t, stack[t], None, <<>>, Append(ssLog[t], "fail"), i[t] + 1)
       ELSE Finish(t, <<>>, "TimeoutError", <<>>, ssLog[t], i[t])

\* ------------------------------------------------------------- PachydermMixin.mount
\* Lines 60-64: unmount the previously mounted repo when the entry was edited.
MReconcile(t) ==
    /\ At(t, "m_reconcile")
    /\ UNCHANGED extra
    /\ UNCHANGED << mounts, mount_process, repository, exists, helper, starting,
                    crashes, pfs, op, calls, edits >>
    /\ LET mounted_repo == mounts[pk(op[t].c)]
           p == split_branch(mounted_repo)
           ev == unmount_repo(p[1], p[2], op[t].ref)
       IN  IF NeedsUnmount(mounted_repo, op[t].ref)
           THEN \E ok \in PutOutcomes :
                  IF ok
                  THEN /\ \E n \in UnmountTargets(ev) : pend' = [pend EXCEPT ![n] = "unmount"]
                       /\ Finish(t, Goto(t, "m_check"), None, <<ev>>, ssLog[t], 0)
                  ELSE /\ pend' = pend
                       /\ Finish(t, <<>>, "HTTPError", <<[ev EXCEPT !.ok = FALSE]>>, ssLog[t], 0)
           ELSE /\ pend' = pend
                /\ Finish(t, Goto(t, "m_check"), None, <<>>, ssLog[t], 0)

\* Line 67: `if not self.is_mounted`.
MCheck(t) ==
    /\ At(t, "m_check")
    /\ UNCHANGED extra
    /\ UNCHANGED << mounts, mount_process, repository, exists, helper, starting,
                    crashes, pfs, pend, op, calls, edits >>
    /\ Finish(t, IF ShouldMount(op[t].ref) THEN Goto(t, "m_request") ELSE Pop(t),
              None, <<>>, ssLog[t], 0)

\* Line 69: the entry is assigned from mount_repo's return value, so only when
\* raise_for_status() passed.
RecordedEagerly(ok, old, name) == name
Recorded(ok, old, name) == IF ok THEN name ELSE old

\* Lines 68-70: the PUT .../_mount request and the registry entry.
MRequest(t) ==
    /\ At(t, "m_request")
    /\ UNCHANGED extra
    /\ UNCHANGED << mount_process, repository, exists, helper, starting,
                    crashes, pfs, op, calls, edits >>
    /\ LET p == split_branch(op[t].ref)
           mode == IF op[t].writable THEN "rw" ELSE "r"
           ev == Req("mount", p[1], p[2], op[t].ref, mode, TRUE)
       IN  \E ok \in PutOutcomes :
             /\ mounts' = [mounts EXCEPT ![pk(op[t].c)] =
                              Recorded(ok, @, mount_repo(p[1], p[2], ev.name))]
             /\ IF ok
                THEN /\ pend' = [pend EXCEPT ![ev.name] = mode]
                     /\ Finish(t, Goto(t, "m_poll"), None, <<ev>>, ssLog[t], 0)
                ELSE /\ pend' = pend
                     /\ Finish(t, <<>>, "HTTPError", <<[ev EXCEPT !.ok = FALSE]>>, ssLog[t], 0)

\* Lines 71-75: poll is_mounted `wait` times, then TimeoutError.
MPoll(t) ==
    /\ At(t, "m_poll")
    /\ UNCHANGED extra
    /\ UNCHANGED << mounts, mount_process, repository, exists, helper, starting,
                    crashes, pfs, pend, op, calls, edits >>
    /\ IF MoreProbes(i[t])
       THEN IF is_mounted(op[t].ref)
            THEN Finish(t, Pop(t), None, <<>>, ssLog[t], 0)
            ELSE Finish(t, stack[t], None, <<>>, ssLog[t], i[t] + 1)
       ELSE Finish(t, <<>>, "TimeoutError", <<>>, ssLog[t], i[t])

\* ------------------------------------------------------------- PachydermMixin.unmount
\* Lines 80-84: the PUT .../_unmount request.
URequest(t) ==
    /\ At(t, "u_request")
    /\ UNCHANGED extra
    /\ UNCHANGED << mounts, mount_process, repository, exists, helper, starting,
                    crashes, pfs, op, calls, edits >>
    /\ LET p == split_branch(op[t].ref)
           ev == unmount_repo(p[1], p[2], op[t].ref)
       IN  \E ok \in PutOutcomes :
             IF ok
             THEN /\ \E n \in UnmountTargets(ev) : pend' = [pend EXCEPT ![n] = "unmount"]
                  /\ Finish(t, Goto(t, "u_del"), None, <<ev>>, ssLog[t], 0)
             ELSE /\ pend' = pend
                  /\ Finish(t, <<>>, "HTTPError", <<[ev EXCEPT !.ok = FALSE]>>, ssLog[t], 0)

\* Line 85: `del _mounts[self.pk]`, a KeyError when the key is absent.
UDel(t) ==
    /\ At(t, "u_del")
    /\ UNCHANGED extra
    /\ UNCHANGED << mount_process, repository, exists, helper, starting,
                    crashes, pfs, pend, op, calls, edits >>
    /\ IF mounts[pk(op[t].c)] = NoEntry
       THEN /\ mounts' = mounts
            /\ Finish(t, <<>>, "KeyError", <<>>, ssLog[t], 0)
       ELSE /\ mounts' = [mounts EXCEPT ![pk(op[t].c)] = NoEntry]
            /\ Finish(t, Pop(t), None, <<>>, ssLog[t], 0)

\* ------------------------------------------------------------- PachydermMixin.delete
\* Lines 89-90: `if self.is_mounted: self.unmount()`.
DCheck(t) ==
    /\ At(t, "d_check")
    /\ UNCHANGED extra
    /\ UNCHANGED << mounts, mount_process, repository, exists, helper, starting,
                    crashes, pfs, pend, op, calls, edits >>
    /\ Finish(t, IF is_mounted(op[t].ref) THEN UnmountFrames \o <<"d_super">>
                 ELSE <<"d_super">>, None, <<>>, ssLog[t], 0)

\* Line 91: super().delete() removes the database row; Model.delete() refuses an
\* instance whose pk is None.
DSuper(t) ==
    /\ At(t, "d_super")
    /\ UNCHANGED extra
    /\ UNCHANGED << mounts, mount_process, repository, helper, starting,
                    crashes, pfs, pend, op, calls, edits >>
    /\ IF pk(op[t].c) = NonePk
       THEN /\ exists' = exists
            /\ Finish(t, <<>>, "ValueError", <<>>, ssLog[t], 0)
       ELSE /\ exists' = [exists EXCEPT ![op[t].c] = FALSE]
            /\ Finish(t, Pop(t), None, <<>>, ssLog[t], 0)

\* ------------------------------------------------------------- PachydermMixin.validate_connection
\* What GET /repos can list: repo@branch for each branch of each repository.
Catalogs == SUBSET MountNames

\* Lines 96-97: PFS_DIR.is_dir(); the directory is there whenever something is
\* mounted under it.
VDir(t) ==
    /\ At(t, "v_dir")
    /\ UNCHANGED extra
    /\ UNCHANGED << mounts, mount_process, repository, exists, helper, starting,
                    crashes, pfs, pend, op, calls, edits >>
    /\ \E dir \in IF \E n \in MountNames : pfs[n] # "none" THEN {TRUE} ELSE BOOLEAN :
          IF dir
          THEN Finish(t, Goto(t, "v_list"), None, <<>>, ssLog[t], 0)
          ELSE Finish(t, <<>>, "ValidationError", <<>>, ssLog[t], 0)

\* Lines 99-108: get_repos() and the look-up of the repository and its branch.
VList(t) ==
    /\ At(t, "v_list")
    /\ UNCHANGED extra
    /\ UNCHANGED << mounts, mount_process, repository, exists, helper, starting,
                    crashes, pfs, pend, op, calls, edits >>
    /\ LET p == split_branch(op[t].ref)
           ev == Req("list", p[1], p[2], <<>>, None, TRUE)
       IN  IF get_repos_ok
           THEN \E repositories \in Catalogs :
                  IF op[t].ref \in repositories
                  THEN Finish(t, Pop(t), None, <<ev>>, ssLog[t], 0)
                  ELSE Finish(t, <<>>, "ValidationError", <<ev>>, ssLog[t], 0)
           ELSE Finish(t, <<>>, "HTTPError", <<[ev EXCEPT !.ok = FALSE]>>, ssLog[t], 0)

\* ------------------------------------------------------------- PachydermExportStorage.save_annotation
\* Line 157: the annotation is written when the mount point exists.
CanSaveAlways(ref) == TRUE
CanSave(ref) == is_mounted(ref)

\* Lines 157-161: RuntimeError when the output repository is not mounted.
SCheck(t) ==
    /\ At(t, "s_check")
    /\ UNCHANGED extra
    /\ UNCHANGED << mounts, mount_process, repository, exists, helper, starting,
                    crashes, pfs, pend, op, calls, edits >>
    /\ IF CanSave(op[t].ref)
       THEN Finish(t, Goto(t, "s_write"), None, <<>>, ssLog[t], 0)
       ELSE Finish(t, <<>>, "RuntimeError", <<>>, ssLog[t], 0)

\* The exception open(key, mode='w') raises under the mount point, None when the
\* file is opened: the directory is gone, or the mount is read-only.
OpenError(mode) ==
    CASE mode = "none" -> "FileNotFoundError"
      [] mode = "r" -> "OSError"
      [] OTHER -> None

\* Lines 171-172: nothing catches what open or json.dump raise.
PropagatesNot(err) == None
Propagates(err) == err

\* Lines 164-172: open(<mount_point>/<key>.json, mode='w') and json.dump.
SWrite(t) ==
    /\ At(t, "s_write")
    /\ UNCHANGED << links, todo, parse_in, parse_out >>
    /\ UNCHANGED << mounts, mount_process, repository, exists, helper, starting,
                    crashes, pfs, pend, op, calls, edits >>
    /\ LET p == split_branch(op[t].ref)
           mode == pfs[op[t].ref]
           failed == OpenError(mode)
           err == Propagates(failed)
           ev == Req("write", p[1], p[2], op[t].ref, mode, failed = None)
       IN  /\ files' = IF failed = None THEN files \cup {op[t].ref} ELSE files
           /\ Finish(t, IF err = None THEN Goto(t, "s_link") ELSE <<>>, err, <<ev>>, ssLog[t], 0)

\* Line 175: PachydermExportStorageLink.create(annotation, self).
SLink(t) ==
    /\ At(t, "s_link")
    /\ UNCHANGED << files, todo, parse_in, parse_out >>
    /\ UNCHANGED << mounts, mount_process, repository, exists, helper, starting,
                    crashes, pfs, pend, op, calls, edits >>
    /\ LET p == split_branch(op[t].ref)
           ev == Req("link", p[1], p[2], op[t].ref, None, TRUE)
       IN  /\ links' = links \cup {op[t].c}
           /\ Finish(t, Pop(t), None, <<ev>>, ssLog[t], 0)

\* ------------------------------------------------------------- sync
\* ExportStorage.save_all_annotations: save_annotation for the project's annotation.
save_all_annotations == SaveFrames

\* Lines 179-183 of PachydermExportStorage.sync.
SyncFrames(mounted) ==
    (IF mounted THEN <<>> ELSE MountFrames) \o save_all_annotations \o UnmountFrames \o MountFrames

\* Line 179: `if not self.is_mounted`.
XCheck(t) ==
    /\ At(t, "x_check")
    /\ UNCHANGED extra
    /\ UNCHANGED << mounts, mount_process, repository, exists, helper, starting,
                    crashes, pfs, pend, op, calls, edits >>
    /\ Finish(t, SyncFrames(is_mounted(op[t].ref)) \o Pop(t), None, <<>>, ssLog[t], 0)

\* Line 147 of PachydermImportStorage.sync: scan_and_create_links() reads the mount.
IScan(t) ==
    /\ At(t, "i_scan")
    /\ UNCHANGED extra
    /\ UNCHANGED << mounts, mount_process, repository, exists, helper, starting,
                    crashes, pfs, pend, op, calls, edits >>
    /\ Finish(t, Pop(t), None, <<>>, ssLog[t], 0)

\* ------------------------------------------------------------- export_annotation_to_local_files
\* Lines 198-200: the next storage of the project, in the order the query gives.
HNext(t) ==
    /\ At(t, "h_next")
    /\ UNCHANGED << files, links, parse_in, parse_out >>
    /\ UNCHANGED << mounts, mount_process, repository, exists, helper, starting,
                    crashes, pfs, pend, calls, edits >>
    /\ IF todo[t] = {}
       THEN /\ UNCHANGED << op, todo >>
            /\ Finish(t, Pop(t), None, <<>>, ssLog[t], 0)
       ELSE \E c \in todo[t] :
              /\ op' = [op EXCEPT ![t].c = c,
                                  ![t].ref = repository_with_branch(repository[c])]
              /\ todo' = [todo EXCEPT ![t] = @ \ {c}]
              /\ Finish(t, SaveFrames \o stack[t], None, <<>>, ssLog[t], 0)

\* ------------------------------------------------------------- environment
\* The call of thread u has had a mount request for directory n accepted.
Requested(u, n) ==
    \E j \in 1..Len(callLog[u]) :
        callLog[u][j].kind = "mount" /\ callLog[u][j].name = n /\ callLog[u][j].ok

EnvStep(disturbed) ==
    /\ quiet' = [u \in Threads |-> quiet[u] /\ u \notin disturbed]
    /\ last' = NoLast
    /\ UNCHANGED << links, todo, parse_in, parse_out >>
    /\ UNCHANGED << mounts, mount_process, stack, op, i, callLog, ssLog, result, calls >>

\* A spawned `pachctl mount-server` starts answering.
HelperReady ==
    /\ Settled
    /\ helper = "down"
    /\ starting > 0
    /\ helper' = "up"
    /\ starting' = 0
    /\ EnvStep({})
    /\ UNCHANGED << repository, exists, edits, crashes, pfs, pend, files >>

\* The helper's exit is not monitored: it stops answering, and the mounts it served
\* go away with it (drop) or stay behind as directories.
HelperCrash(drop) ==
    /\ Settled
    /\ helper = "up"
    /\ crashes < MaxCrashes
    /\ drop => \E n \in MountNames : pfs[n] # "none"
    /\ helper' = "down"
    /\ crashes' = crashes + 1
    /\ pfs' = IF drop THEN [n \in MountNames |-> "none"] ELSE pfs
    /\ files' = IF drop THEN {} ELSE files
    /\ EnvStep(IF drop THEN Threads ELSE {})
    /\ UNCHANGED << repository, exists, edits, starting, pend >>

\* The mount-server carries out an accepted request: the directory appears (a
\* mount of a mounted name changes nothing) or disappears.
PendApply(n) ==
    /\ Settled
    /\ helper = "up"
    /\ pend[n] # "none"
    /\ pfs' = [pfs EXCEPT ![n] = IF pend[n] = "unmount" THEN "none"
                                 ELSE IF @ = "none" THEN pend[n] ELSE @]
    /\ pend' = [pend EXCEPT ![n] = "none"]
    /\ files' = IF pend[n] = "unmount" THEN files \ {n} ELSE files
    /\ EnvStep({u \in Threads : pend[n] = "unmount" \/ ~Requested(u, n)})
    /\ UNCHANGED << repository, exists, edits, helper, starting, crashes >>

\* A user edits the configuration's repository field and saves it.
Edit(c, r) ==
    /\ Settled
    /\ exists[c]
    /\ edits < MaxEdits
    /\ r # repository[c]
    /\ repository' = [repository EXCEPT ![c] = r]
    /\ edits' = edits + 1
    /\ EnvStep(Threads)
    /\ UNCHANGED << exists, helper, starting, crashes, pfs, pend, files >>

\* ------------------------------------------------------------- identifiers
Alphabet == {"r", "d", "@"}
Strings == UNION {[1..n -> Alphabet] : n \in 0..MaxLen}

\* split_branch and repository_with_branch applied to the string.
Parse ==
    /\ ~parse_out.done
    /\ parse_out' = [pair |-> split_branch(parse_in),
                     canon |-> repository_with_branch(parse_in),
                     done |-> TRUE]
    /\ UNCHANGED << mounts, mount_process, repository, exists, helper, starting, crashes,
                    pfs, pend, stack, op, i, callLog, ssLog, result, calls, edits, quiet,
                    last, files, links, todo, parse_in >>

\* ------------------------------------------------------------- specification
\* One request-handling thread: calls run one after another, the environment acts
\* between any two steps.
Worker == {"t1"}

ThreadStep(t) ==
    \/ SsProbe(t)
    \/ SsSpawn(t)
    \/ SsLoop(t)
    \/ MReconcile(t)
    \/ MCheck(t)
    \/ MRequest(t)
    \/ MPoll(t)
    \/ URequest(t)
    \/ UDel(t)
    \/ DCheck(t)
    \/ DSuper(t)

Next ==
    \/ \E t \in Worker, c \in Configs : CallMount(t, c)
    \/ \E t \in Worker, c \in Configs : CallUnmount(t, c)
    \/ \E t \in Worker, c \in Configs : CallDelete(t, c)
    \/ \E t \in Worker : Collect(t)
    \/ \E t \in Worker : ThreadStep(t)
    \/ HelperReady
    \/ \E drop \in BOOLEAN : HelperCrash(drop)
    \/ \E n \in MountNames : PendApply(n)
    \/ \E c \in Configs, r \in RepoInputs : Edit(c, r)

Spec == Init /\ [][Next]_vars

\* Several request-handling threads run calls concurrently while the helper is not
\* running; no edits and no crashes.
InitConc ==
    /\ Init
    /\ helper = "down"
    /\ pfs = [n \in MountNames |-> "none"]

NextConc ==
    \/ \E t \in Threads, c \in Configs : CallMount(t, c)
    \/ \E t \in Threads, c \in Configs : CallUnmount(t, c)
    \/ \E t \in Threads, c \in Configs : CallDelete(t, c)
    \/ \E t \in Threads : Collect(t)
    \/ \E t \in Threads : ThreadStep(t)
    \/ HelperReady
    \/ \E n \in MountNames : PendApply(n)

SpecConc == InitConc /\ [][NextConc]_vars

\* Import and export storages of one project: every operation, one request-handling
\* thread, a helper that stays up once it answers, no edits.  Mounts of an earlier
\* process, read-only or read-write, may still be there.
InitExport ==
    /\ Fresh
    /\ repository = [c \in Configs |-> IF c = "exp2" THEN <<"r", "@", "d">> ELSE <<"r">>]
    /\ exists = [c \in Configs |-> c \in {"imp1", "exp1", "exp2"}]
    /\ helper \in {"down", "up"}
    /\ pfs \in [MountNames -> {"none", "r", "rw"}]
    /\ parse_in = <<>>

ExportStep(t) ==
    \/ VDir(t)
    \/ VList(t)
    \/ SCheck(t)
    \/ SWrite(t)
    \/ SLink(t)
    \/ XCheck(t)
    \/ IScan(t)
    \/ HNext(t)

NextExport ==
    \/ \E t \in Worker, c \in Configs : CallMount(t, c)
    \/ \E t \in Worker, c \in Configs : CallUnmount(t, c)
    \/ \E t \in Worker, c \in Configs : CallDelete(t, c)
    \/ \E t \in Worker, c \in Configs : CallValidate(t, c)
    \/ \E t \in Worker, c \in Configs : CallSave(t, c)
    \/ \E t \in Worker, c \in Configs : CallSync(t, c)
    \/ \E t \in Worker : CallHook(t)
    \/ \E t \in Worker : Collect(t)
    \/ \E t \in Worker : ThreadStep(t)
    \/ \E t \in Worker : ExportStep(t)
    \/ HelperReady
    \/ \E n \in MountNames : PendApply(n)

SpecExport == InitExport /\ [][NextExport]_vars

\* Two instances that were never saved (self.pk is None), of different
\* repositories, with the whole environment of Spec.
InitUnsaved ==
    /\ Fresh
    /\ repository = [c \in Configs |-> IF c = "new2" THEN <<"r", "@", "d">> ELSE <<"r">>]
    /\ exists = [c \in Configs |-> c \in {"new1", "new2"}]
    /\ helper \in {"down", "up"}
    /\ pfs \in [MountNames -> {"none", "r"}]
    /\ parse_in = <<>>

SpecUnsaved == InitUnsaved /\ [][Next]_vars

\* The identifier functions on their own, for every string up to MaxLen.
InitParse ==
    /\ Fresh
    /\ repository = [c \in Configs |-> <<"r">>]
    /\ exists = [c \in Configs |-> FALSE]
    /\ helper = "down"
    /\ pfs = [n \in MountNames |-> "none"]
    /\ parse_in \in Strings

SpecParse == InitParse /\ [][Parse]_vars

\* ------------------------------------------------------------- claims
SsLabels == {"ss_probe", "ss_spawn", "ss_loop"}
MountLabels == {"m_check", "m_request", "m_poll"}
Unmounts(t) == {j \in 1..Len(callLog[t]) : callLog[t][j].kind = "unmount"}
MountReqs(t) == {j \in 1..Len(callLog[t]) : callLog[t][j].kind = "mount"}
Fails(n) == [j \in 1..n |-> "fail"]

\* C1: a mount call that directly follows a successful mount call of the same
\* configuration and repo@branch, the first one begun with the target not mounted
\* and no registry entry and nothing else having acted since, issues no mount and no
\* unmount request; the first call issued exactly one mount request, and the
\* registry maps the configuration to the repo@branch.
MountIdempotent ==
    \A t \in Threads :
        (result[t].r = "ok" /\ op[t].kind = "mount" /\ op[t].after # -1 /\ quiet[t])
            => /\ op[t].after = 1
               /\ callLog[t] = <<>>
               /\ mounts[pk(op[t].c)] = op[t].ref

MountIdempotentWitness ==
    \E t \in Threads :
        /\ result[t].r = "ok" /\ op[t].kind = "mount" /\ quiet[t]
        /\ op[t].after = 1 /\ callLog[t] = <<>>

\* C2: a mount call whose poll never sees the mount point ends with TimeoutError
\* and the registry then holds no entry for the configuration.
MountTimeoutLeavesNoEntry ==
    \A t \in Threads :
        (op[t].kind = "mount" /\ quiet[t] /\ result[t].r = "TimeoutError" /\ result[t].at = "m_poll")
            => mounts[pk(op[t].c)] = NoEntry

\* C3: whenever mount returns normally the mount point of the desired repo@branch
\* is present and the registry maps the configuration to that repo@branch.
MountSuccessRecordsRef ==
    \A t \in Threads :
        (op[t].kind = "mount" /\ quiet[t] /\ result[t].r = "ok")
            => /\ is_mounted(op[t].ref)
               /\ mounts[pk(op[t].c)] = op[t].ref

\* C4: a mount call that finds the registry entry A different from the desired B
\* sends its unmount request for A (repository, branch and name those of A), before
\* any mount request, and sends no unmount request naming B.
EditUnmountsPreviousRef ==
    \A t \in Threads :
        (op[t].kind = "mount" /\ quiet[t] /\ op[t].entry0 # NoEntry /\ op[t].entry0 # op[t].ref)
            => \A j \in Unmounts(t) :
                 /\ WithBranch(callLog[t][j].repo, callLog[t][j].branch) = op[t].entry0
                 /\ callLog[t][j].name = op[t].entry0
                 /\ callLog[t][j].name # op[t].ref
                 /\ \A k \in MountReqs(t) : j < k

\* C5: once a mount call is past its reconcile step it has sent an unmount request
\* (exactly one) if and only if the registry held an entry for the configuration
\* that differed from the desired repo@branch; with an equal entry or none it has
\* sent no unmount request.
ReconcileDecision ==
    \A t \in Threads :
        (op[t].kind = "mount"
         /\ (Label(t) \in MountLabels \/ result[t].at \in MountLabels \cup {"m_reconcile"}))
            => Cardinality(Unmounts(t)) =
                 IF op[t].entry0 # NoEntry /\ op[t].entry0 # op[t].ref THEN 1 ELSE 0

ReconcileDecisionWitness ==
    \E t \in Threads :
        /\ op[t].kind = "mount" /\ Label(t) = "m_check"
        /\ Cardinality(Unmounts(t)) = 1
        /\ op[t].entry0 # NoEntry /\ op[t].entry0 # op[t].ref

\* C6: after an unmount call on a configuration with a registry entry has sent its
\* request and ended, whether the request succeeded or failed, the registry holds
\* no entry for the configuration.
UnmountAlwaysForgets ==
    \A t \in Threads :
        (op[t].kind = "unmount" /\ quiet[t] /\ op[t].entry0 # NoEntry
         /\ result[t].r # None /\ result[t].at \in {"u_request", "u_del"})
            => mounts[pk(op[t].c)] = NoEntry

\* C7: an unmount call on a configuration without a registry entry sends no unmount
\* request and does not return normally.
UnmountWithoutEntryFailsFirst ==
    \A t \in Threads :
        (op[t].kind = "unmount" /\ quiet[t] /\ op[t].entry0 = NoEntry)
            => callLog[t] = <<>> /\ result[t].r # "ok"

\* C8: when delete returns the row is gone, the registry holds no entry for the
\* configuration, its mount point is absent or its removal accepted, and an unmount
\* request was sent if the mount point was present or the registry held an entry.
DeleteLeavesNoMount ==
    \A t \in Threads :
        (op[t].kind = "delete" /\ quiet[t] /\ result[t].r = "ok")
            => /\ ~exists[op[t].c]
               /\ mounts[pk(op[t].c)] = NoEntry
               /\ (~is_mounted(op[t].ref) \/ pend[op[t].ref] = "unmount")
               /\ (op[t].mounted0 \/ op[t].entry0 # NoEntry) => Unmounts(t) # {}

\* C9: the probes and Popens of one safe_start_mount_server call: a first probe
\* that succeeds and nothing else; or a failed first probe, exactly one Popen, then
\* failed probes up to the first successful one, at most `wait` probes in all after
\* the Popen; TimeoutError only after `wait` failed probes.  The Popen follows a
\* failed first probe whatever _mount_process holds.
EnsureReadyTrace ==
    \A t \in Threads :
        /\ Label(t) = "ss_spawn" => ssLog[t] = <<"fail">>
        /\ Label(t) = "ss_loop" =>
              /\ i[t] <= WaitBound
              /\ ssLog[t] = <<"fail", "spawn">> \o Fails(i[t])
        /\ (result[t].r = "TimeoutError" /\ result[t].at = "ss_loop") =>
              ssLog[t] = <<"fail", "spawn">> \o Fails(WaitBound)
        /\ (ssLog[t] # <<>> /\ Label(t) \notin SsLabels /\ result[t].at # "ss_loop") =>
              \/ ssLog[t] = <<"ok">>
              \/ \E k \in 0..(WaitBound - 1) :
                    ssLog[t] = <<"fail", "spawn">> \o Fails(k) \o <<"ok">>

EnsureReadyTraceWitness ==
    \E t \in Threads :
        /\ ssLog[t] = <<"fail", "spawn", "fail", "ok">>
        /\ crashes > 0
        /\ mount_process = 2
        /\ Label(t) \notin SsLabels

\* C10: under concurrent safe_start_mount_server calls the helper process is
\* spawned at most once until it answers.
SpawnedAtMostOnce == starting <= 1

Writes(t) == {j \in 1..Len(callLog[t]) : callLog[t][j].kind = "write"}
LinkReqs(t) == {j \in 1..Len(callLog[t]) : callLog[t][j].kind = "link"}

\* C11: a save_annotation call begun with the target not mounted, nothing else
\* having acted since, attempts no write and creates no link: it never gets past
\* its check, writes no file under the mount point and ends with RuntimeError.
SaveNotMountedFails ==
    \A t \in Threads :
        (op[t].kind = "save" /\ quiet[t] /\ ~op[t].mounted0)
            => /\ callLog[t] = <<>>
               /\ Label(t) \notin {"s_write", "s_link"}
               /\ op[t].ref \notin files
               /\ result[t].r # None => (result[t].r = "RuntimeError" /\ result[t].at = "s_check")

SaveNotMountedFailsWitness ==
    \E t \in Threads :
        /\ op[t].kind = "save" /\ quiet[t] /\ ~op[t].mounted0
        /\ result[t].r = "RuntimeError"
        /\ op[t].c \notin links

\* C12: a link record is created only in the step after a write of the same
\* configuration's file has succeeded in the same call, and a step in which the
\* write fails ends the call with the links as they were.
LinkFollowsWrite ==
    [][ /\ \A c \in links' \ links :
             \E t \in Threads :
                /\ op[t].c = c
                /\ callLog[t] # <<>>
                /\ callLog[t][Len(callLog[t])].kind = "write"
                /\ callLog[t][Len(callLog[t])].ok
                /\ callLog[t][Len(callLog[t])].name = op[t].ref
        /\ \A t \in Threads :
             (Len(callLog'[t]) > Len(callLog[t])
              /\ callLog'[t][Len(callLog'[t])].kind = "write"
              /\ ~callLog'[t][Len(callLog'[t])].ok)
                => /\ links' = links
                   /\ stack'[t] = <<>>
                   /\ result'[t].r \notin {None, "ok"} ]_vars

LinkFollowsWriteWitness ==
    \E t \in Threads :
        /\ op[t].kind = "save" /\ result[t].r = "ok"
        /\ Len(callLog[t]) = 2
        /\ callLog[t][1].kind = "write" /\ callLog[t][1].ok
        /\ callLog[t][2].kind = "link"
        /\ op[t].c \in links /\ op[t].ref \in files

\* C13: an export sync that returns normally has, after its last write, sent
\* exactly one unmount request and then exactly one read-write mount request for
\* the repo@branch, the mount point is present and not about to be removed, and
\* the registry maps the configuration to the repo@branch.
SyncRemounts ==
    \A t \in Threads :
        (op[t].kind = "sync" /\ Writable(op[t].c) /\ result[t].r = "ok")
            => /\ \E u \in Unmounts(t), m \in MountReqs(t) :
                    /\ \A w \in Writes(t) : w < u
                    /\ u < m
                    /\ Unmounts(t) = {u}
                    /\ {k \in MountReqs(t) : k > u} = {m}
                    /\ callLog[t][u].name = op[t].ref
                    /\ callLog[t][m].name = op[t].ref
                    /\ callLog[t][m].mode = "rw"
               /\ is_mounted(op[t].ref)
               /\ pend[op[t].ref] # "unmount"
               /\ mounts[pk(op[t].c)] = op[t].ref

\* C16: no write is attempted under a mount point that is mounted read-only.
WritesOnlyReadWrite ==
    \A t \in Threads : \A j \in Writes(t) : callLog[t][j].mode # "r"

\* C20: when the post_save receiver has ended, every export storage of the project
\* whose target is mounted read-write has the annotation's file under its mount
\* point and its link, whatever happened with the other storages.
HookWritesEveryMounted ==
    \A t \in Threads :
        (op[t].kind = "hook" /\ quiet[t] /\ result[t].r # None)
            => \A c \in Configs :
                 (exists[c] /\ Writable(c) /\ pfs[repository_with_branch(repository[c])] = "rw")
                    => /\ c \in links
                       /\ repository_with_branch(repository[c]) \in files

\* C17: a mount or unmount request, or the repository listing of
\* validate_connection, is issued only when the latest safe_start_mount_server of
\* the same operation has ended with a successful probe; the step in which
\* safe_start_mount_server times out ends the operation, issues nothing and leaves
\* the registry alone, and a mount, unmount, delete or validate_connection that
\* ends this way has issued no request at all.
RequestsFollowReady ==
    [][\A t \in Threads :
          /\ (Len(callLog'[t]) > Len(callLog[t])
               /\ callLog'[t][Len(callLog'[t])].kind \in {"mount", "unmount", "list"})
                 => /\ ssLog[t] # <<>>
                    /\ ssLog[t][Len(ssLog[t])] = "ok"
          /\ (result[t].r = None /\ result'[t].r = "TimeoutError" /\ result'[t].at = "ss_loop")
                 => /\ callLog'[t] = callLog[t]
                    /\ mounts' = mounts
                    /\ stack'[t] = <<>>
                    /\ op[t].kind \in {"mount", "unmount", "delete", "validate"}
                          => callLog[t] = <<>> ]_vars

RequestsFollowReadyWitness ==
    \E t \in Threads :
        /\ op[t].kind = "sync" /\ Writable(op[t].c)
        /\ ssLog[t] = <<"fail", "spawn", "ok">>
        /\ Unmounts(t) # {}

\* C18: the step in which the mount request fails ends the call with the error
\* and leaves the registry as it was; a mount call that ended this way sent the
\* request exactly once and never polled.
MountFailureNotRetried ==
    [][\A t \in Threads :
          (Len(callLog'[t]) > Len(callLog[t])
           /\ callLog'[t][Len(callLog'[t])].kind = "mount"
           /\ ~callLog'[t][Len(callLog'[t])].ok)
             => /\ mounts' = mounts
                /\ stack'[t] = <<>>
                /\ i'[t] = 0
                /\ result'[t] = [r |-> "HTTPError", at |-> "m_request"]
                /\ op[t].kind = "mount" => CountKind(callLog'[t], "mount") = 1 ]_vars

MountFailureNotRetriedWitness ==
    \E t \in Threads :
        /\ op[t].kind = "mount" /\ helper = "up"
        /\ result[t] = [r |-> "HTTPError", at |-> "m_request"]
        /\ CountKind(callLog[t], "mount") = 1
        /\ op[t].entry0 = NoEntry /\ mounts[pk(op[t].c)] = NoEntry

\* C19: while the registry records a repo@branch for another configuration, an
\* unmount or delete call that found the mount point present and had its unmount
\* request accepted does not make the mount point go away.
SharedMountKept ==
    \A t \in Threads :
        (op[t].kind \in {"unmount", "delete"} /\ op[t].mounted0)
            => \A j \in Unmounts(t) : \A c \in Configs \ {op[t].c} :
                 (callLog[t][j].ok /\ exists[c] /\ mounts[pk(c)] = callLog[t][j].name)
                    => is_mounted(callLog[t][j].name)

\* C15: a step of a mount, unmount or delete call changes no registry entry but
\* that of the call's own configuration: the entry another configuration reads
\* stays as it was.
RegistryKeyedByConfig ==
    [][\A t \in Threads : \A c \in Configs \ {op[t].c} :
          (stack'[t] # stack[t] /\ op[t].kind \in {"mount", "unmount", "delete"}
           /\ exists[c])
             => mounts'[pk(c)] = mounts[pk(c)] ]_vars

====
